---- MODULE Spec2Model ----
(***************************************************************************)
(* Streaming speech-recognition gateway of server_https.py (server.py has  *)
(* the same handlers): the socket.io handlers connect / disconnect /       *)
(* start_recognition / audio_data / stop_recognition, the registry         *)
(* active_sessions guarded by sessions_lock, and the provider callbacks of *)
(* StreamingRecognitionCallback.                                           *)
(*                                                                         *)
(* Handlers run in threads (async_mode='threading'), so each handler is a  *)
(* thread with a position; a step of a handler is a maximal block of code  *)
(* that no other thread can observe half-done.  The provider (DashScope    *)
(* Recognition) is external: start(), stop() and send_audio_frame() return *)
(* or raise by the provider's choice, and its callbacks arrive in the      *)
(* order open, events, complete|error, close.                              *)
(***************************************************************************)
EXTENDS Integers, Sequences, FiniteSets, Bags, TLC

\* ---------------------------------------------------------------- bounds
NumConns    == 2   \* connections (request.sid values)
MaxThreads  == 2   \* handler threads in flight at once
MaxSessions == 2   \* Recognition objects constructed in a run
MaxInputs   == 3   \* client messages and provider results handled in a run
MaxSamples  == 3   \* length of an audio payload in SpecCodec
MaxWords    == 2   \* entries of hot_words.json in SpecHot

Conns    == 1..NumConns
Threads  == 1..MaxThreads
SessIds  == 1..MaxSessions

NoSession == 0     \* "session_id not in active_sessions"
NoThread  == 0     \* sessions_lock is free
NoneVal   == "<None>"   \* Python None of final_result

\* texts a provider result can carry once _extract_transcript has run
Texts == {"", "he", "hello"}

\* audio_data payloads: {'audio': [...]} , raw bytes, anything else
Payloads ==
  { [kind |-> "samples", val |-> <<1, -1>>],
    [kind |-> "bytes",   val |-> <<1, 0, 255>>],
    [kind |-> "other",   val |-> <<>>] }
NoData == [kind |-> "none", val |-> <<>>]

VARIABLES
  DASHSCOPE_API_KEY,  \* TRUE iff the credential is configured
  hotFile,            \* what hot_words.json held when the process started
  HOT_WORDS,          \* the hot-word configuration load_hot_words() left
  connState,          \* per connection: "new" | "connected" | "disconnected"
  active_sessions,    \* connection -> session object, or NoSession
  sessions_lock,      \* thread holding the lock, or NoThread
  sess,               \* the Recognition objects with their callback objects
  nsess,              \* number of Recognition objects constructed
  thr,                \* handler threads: kind, connection, position, locals
  inputs,             \* client messages and provider results handled so far
  inbox,              \* history, per connection: the bag of notifications
                      \* the client received
  sendLog             \* history: the send_audio_frame calls made, each with
                      \* the session's provider stream and stop() count then

\* set when the module is imported and never assigned afterwards
config == <<DASHSCOPE_API_KEY, hotFile, HOT_WORDS>>

vars == <<config, connState, active_sessions, sessions_lock, sess,
          nsess, thr, inputs, inbox, sendLog>>

SeqsUpTo(S, n) == UNION {[1..k -> S] : k \in 0..n}

\* -------------------------------------------------------------- hot words
\* A JSON object is a record that has every key the code looks at; a key
\* the object lacks has the value NoWord / NoWeight / "absent".
NoWord        == "<no word>"
NoWeight      == -1
DefaultWeight == 5      \* hw.get('weight', 5)

HotEntries == [word : {NoWord, "tapetite"}, weight : {NoWeight, 3}]

\* 'settings': the key is absent, or its value is not an object, or it is
\* an object whose 'enabled' is absent, true (truthy) or false (falsy)
HotSettings ==
  {[kind |-> "absent", enabled |-> "absent"],
   [kind |-> "nondict", enabled |-> "absent"]}
  \cup [kind : {"dict"}, enabled : {"absent", "true", "false"}]

HotConfigs ==
  {h \in [has_words : BOOLEAN,
          hotWords : SeqsUpTo(HotEntries, MaxWords),
          settings : HotSettings] :
     ~h.has_words => h.hotWords = <<>>}

\* {'hotWords': [], 'settings': {'enabled': False}}
EmptyDisabled ==
  [has_words |-> TRUE, hotWords |-> <<>>,
   settings |-> [kind |-> "dict", enabled |-> "false"]]

\* hot_words.json: not there; not readable or not JSON; JSON that is not an
\* object; a JSON object
HotFiles ==
  {[kind |-> k, val |-> EmptyDisabled] : k \in {"missing", "malformed", "nondict"}}
  \cup {[kind |-> "dict", val |-> h] : h \in HotConfigs}

MissingFile == [kind |-> "missing", val |-> EmptyDisabled]

\* the try block of load_hot_words raises: open() or json.load() fails,
\* HOT_WORDS.get does not exist, or the logging loop reads hw['word'] or
\* hw['weight'] of an entry that lacks it
LoadRaises(f) ==
  \/ f.kind \in {"malformed", "nondict"}
  \/ /\ f.kind = "dict"
     /\ \E i \in 1..Len(f.val.hotWords) :
          \/ f.val.hotWords[i].word = NoWord
          \/ f.val.hotWords[i].weight = NoWeight

\* (variant: what json.load returned stays when the logging loop raises)
load_hot_words_keeps_parsed(f) ==
  IF f.kind = "dict" THEN f.val ELSE EmptyDisabled

load_hot_words(f) ==
  IF f.kind = "missing" \/ LoadRaises(f) THEN EmptyDisabled ELSE f.val

\* HOT_WORDS.get('settings', {}).get('enabled', True) raises
HotWordsRaise(hw) ==
  \/ hw.settings.kind = "nondict"
  \/ /\ hw.settings.enabled # "false"
     /\ \E i \in 1..Len(hw.hotWords) : hw.hotWords[i].word = NoWord

\* (variant: the 'enabled' setting is not looked at)
HotWordsEnabledAlways(hw) == TRUE

\* HOT_WORDS.get('settings', {}).get('enabled', True)
HotWordsEnabled(hw) == hw.settings.enabled # "false"

\* hot_words_list
HotWordsList(hw) ==
  IF HotWordsEnabled(hw)
  THEN [i \in 1..Len(hw.hotWords) |->
          [word |-> hw.hotWords[i].word,
           weight |-> IF hw.hotWords[i].weight = NoWeight THEN DefaultWeight
                      ELSE hw.hotWords[i].weight]]
  ELSE <<>>

\* if hot_words_list: recognition_kwargs['hot_words'] = hot_words_list
HotWordsKwarg(hw) ==
  [attached |-> HotWordsList(hw) # <<>>, list |-> HotWordsList(hw)]

\* ------------------------------------------------------------ data shapes
Idle == [kind |-> "idle", conn |-> 0, pc |-> "idle", rec |-> NoSession,
         data |-> NoData, late |-> FALSE, tmp |-> 0]

\* a Recognition object together with its StreamingRecognitionCallback
NewSess ==
  [ conn            |-> 0,         \* callback.session_id
    prov            |-> "unused",  \* provider stream
    hot_words       |-> [attached |-> FALSE, list |-> <<>>],
                                   \* recognition_kwargs['hot_words']
    starts          |-> 0,         \* start() calls that returned
    stops           |-> 0,         \* stop() calls made (returned or raised)
    dstops          |-> 0,         \* history: those made by handle_disconnect
    after_error     |-> FALSE,     \* history: stored in the place of a session
                                   \* whose provider had reported an error
    frames          |-> 0,         \* _audio_frame_count
    bytes           |-> 0,         \* _total_bytes_sent
    sent_frames     |-> 0,         \* history: send_audio_frame calls that
                                   \* returned
    sent_bytes      |-> 0,         \* history: the bytes they were given
    final_result    |-> NoneVal,   \* callback.final_result
    partial_results |-> <<>>,      \* callback.partial_results
    delivered       |-> <<>>,      \* history: texts the provider delivered
    emitted         |-> <<>> ]     \* history: what the callback emitted

\* a notification: the event, its payload fields, and (history) the session
\* object whose callback emitted it, 0 for a handler's own emit
Msg(ev, sid, transcript, final, src) ==
  [ev |-> ev, sid |-> sid, transcript |-> transcript, is_final |-> final,
   src |-> src, error |-> ""]

Terminal == {"completed", "errored", "closed"}

\* ------------------------------------------------------------------- emit
\* flask_socketio.emit inside a handler: to the handler's own client
EmitTo(c, m, ib) ==
  [ib EXCEPT ![c] = IF connState[c] = "connected" THEN @ (+) SetToBag({m})
                    ELSE @]

\* socketio.emit without a recipient: to every connected client
RECURSIVE SeqToBag(_)
SeqToBag(ms) ==
  IF ms = <<>> THEN EmptyBag
  ELSE SetToBag({Head(ms)}) (+) SeqToBag(Tail(ms))

EmitAll(ms, ib) ==
  [c \in Conns |-> IF connState[c] = "connected" THEN ib[c] (+) SeqToBag(ms)
                   ELSE ib[c]]

\* recognition_error {'error': str(e)} of a handler's except block
ErrorMsg ==
  [Msg("recognition_error", 0, "", FALSE, 0) EXCEPT !.error = "exception"]

\* recognition_error {'error': 'No active recognition session'}
NoSessionError ==
  [Msg("recognition_error", 0, "", FALSE, 0) EXCEPT
     !.error = "No active recognition session"]

\* recognition_error {'error': 'DASHSCOPE_API_KEY not configured'}
NoKeyError ==
  [Msg("recognition_error", 0, "", FALSE, 0) EXCEPT
     !.error = "DASHSCOPE_API_KEY not configured"]

\* the state when the server starts to handle events: the credential was
\* read from the environment and load_hot_words() has run
Boot(files) ==
  /\ DASHSCOPE_API_KEY \in BOOLEAN
  /\ hotFile \in files
  /\ HOT_WORDS = load_hot_words(hotFile)
  /\ connState = [c \in Conns |-> "new"]
  /\ active_sessions = [c \in Conns |-> NoSession]
  /\ sessions_lock = NoThread
  /\ sess = [s \in SessIds |-> NewSess]
  /\ nsess = 0
  /\ thr = [t \in Threads |-> Idle]
  /\ inputs = 0
  /\ inbox = [c \in Conns |-> EmptyBag]
  /\ sendLog = {}

Init == Boot({MissingFile})

\* ---------------------------------------------------------------- connect
\* (variant: the notification goes out with socketio.emit, to every client)
handle_connect_broadcast(c) ==
  /\ connState[c] = "new"
  /\ connState' = [connState EXCEPT ![c] = "connected"]
  /\ inbox' = [d \in Conns |->
                 inbox[d] (+) SetToBag({Msg("connected", c, "", FALSE, 0)})]
  /\ UNCHANGED <<config, active_sessions, sessions_lock, sess,
                 nsess, thr, inputs, sendLog>>

handle_connect(c) ==
  /\ connState[c] = "new"
  /\ connState' = [connState EXCEPT ![c] = "connected"]
  /\ inbox' = [inbox EXCEPT ![c] =
                 @ (+) SetToBag({Msg("connected", c, "", FALSE, 0)})]
  /\ UNCHANGED <<config, active_sessions, sessions_lock, sess,
                 nsess, thr, inputs, sendLog>>


\* ---------------------------------------------------------------- threads
\* A handler that blocks or is observable half-way (it holds sessions_lock
\* across provider calls, or it has left the lock with a session reference)
\* occupies a thread until it returns.  A handler's first step is taken
\* for a connection that is connected, or that has disconnected meanwhile:
\* the transport started the handler's thread before the disconnect and the
\* thread reaches the lock only afterwards.
IdleThreads == {t \in Threads : thr[t].kind = "idle"}
FreeThread  == CHOOSE t \in IdleThreads : \A u \in IdleThreads : t <= u

Known(c) == connState[c] # "new"

\* (variant: a handler enters its registry block without the lock)
LockIgnored == TRUE

\* "with sessions_lock:" can be entered
LockFree == sessions_lock = NoThread

\* the positions of a handler inside its "with sessions_lock:" block
LockPcs == {"s_new", "s_store", "p_del",
            "d_stop_call", "s_stop_call", "s_start_call", "p_stop_call"}

\* (variant: acquire() and release() without try/finally)
LeaveLockOnReturnOnly(t, raised) == IF raised THEN t ELSE NoThread

\* the end of "with sessions_lock:": the lock is released when the block
\* is left, by its last statement, a return or an exception
LeaveLock(t, raised) == NoThread

Enter(kind, c, pc, rec, data, late) ==
  /\ IdleThreads # {}
  /\ thr' = [thr EXCEPT ![FreeThread] =
               [kind |-> kind, conn |-> c, pc |-> pc, rec |-> rec,
                data |-> data, late |-> late, tmp |-> 0]]

\* ------------------------------------------------------- provider calls
\* recognition.stop() was called on s (whether it then returns or raises)
StopCalled(ss, s) == [ss EXCEPT ![s].stops = @ + 1]

\* recognition.start() and recognition.stop() are round trips to the
\* provider made without a timeout: the call returns, raises, or is still
\* outstanding.  A handler inside an outstanding call stays at one of the
\* positions CallPcs; the steps of a call that has returned or raised are
\* the ones taken when it returns or raises at once.
CallOutcomes == {"returned", "raised", "outstanding"}
CallPcs == {"d_stop_call", "s_stop_call", "s_start_call", "p_stop_call"}

\* ------------------------------------------------------ handle_disconnect
\* with sessions_lock: if present: try: stop(); del  except: log
\* (variant: a successful cleanup empties the registry)
DisconnectCleanupAll(reg, c, ok) ==
  IF ok THEN [d \in Conns |-> NoSession] ELSE reg

DisconnectCleanup(reg, c, ok) ==
  IF ok THEN [reg EXCEPT ![c] = NoSession] ELSE reg

\* The whole handler runs under the lock and emits nothing, so it is one
\* step; the client counts as gone from the moment the handler runs.  The
\* handler can be invoked again for a connection that is already gone.
handle_disconnect(c) ==
  /\ Known(c)
  /\ inputs < MaxInputs
  /\ LockFree
  /\ connState' = [connState EXCEPT ![c] = "disconnected"]
  /\ inputs' = inputs + 1
  /\ IF active_sessions[c] # NoSession
     THEN /\ sess' = [StopCalled(sess, active_sessions[c])
                        EXCEPT ![active_sessions[c]].dstops = @ + 1]
          /\ \E outcome \in CallOutcomes :
               IF outcome = "outstanding"
               THEN /\ Enter("disconnect", c, "d_stop_call",
                             active_sessions[c], NoData, FALSE)
                    /\ sessions_lock' = FreeThread
                    /\ UNCHANGED active_sessions
               ELSE /\ active_sessions' =
                         DisconnectCleanup(active_sessions, c,
                                           outcome = "returned")
                    /\ UNCHANGED <<sessions_lock, thr>>
     ELSE UNCHANGED <<sess, active_sessions, sessions_lock, thr>>
  /\ UNCHANGED <<config, nsess, inbox, sendLog>>

\* ------------------------------------------------ handle_start_recognition
\* (variant: the credential is not tested)
CredentialAssumed == TRUE

\* the test "if not DASHSCOPE_API_KEY" fails
CredentialConfigured == DASHSCOPE_API_KEY

\* if not DASHSCOPE_API_KEY: emit error; return
StartNoKey(c) ==
  /\ Known(c)
  /\ inputs < MaxInputs
  /\ ~CredentialConfigured
  /\ inputs' = inputs + 1
  /\ inbox' = EmitTo(c, NoKeyError, inbox)
  /\ UNCHANGED <<config, connState, active_sessions, sessions_lock,
                 sess, nsess, thr, sendLog>>

\* (variant: the existing session is replaced without being stopped)
StopExistingSkipped(ss, old) == ss

\* "Stop any existing session": try: active_sessions[sid].stop() except: pass
StopExisting(ss, old) ==
  IF old # NoSession THEN StopCalled(ss, old) ELSE ss

StartStopOld(c) ==
  /\ Known(c)
  /\ inputs < MaxInputs
  /\ nsess < MaxSessions
  /\ CredentialConfigured
  /\ LockFree
  /\ \E outcome \in CallOutcomes :
       Enter("start", c,
             IF active_sessions[c] # NoSession /\ outcome = "outstanding"
             THEN "s_stop_call" ELSE "s_new",
             NoSession, NoData, FALSE)
  /\ sessions_lock' = FreeThread
  /\ inputs' = inputs + 1
  /\ sess' = StopExisting(sess, active_sessions[c])
  /\ UNCHANGED <<config, connState, active_sessions, nsess, inbox,
                 sendLog>>

\* (variant: the failure is swallowed and the start is announced)
StartFailedAnnounced(c, ib) ==
  EmitTo(c, Msg("recognition_started", c, "", FALSE, 0), ib)

\* except Exception as e: emit('recognition_error', {'error': str(e)})
StartFailed(c, ib) == EmitTo(c, ErrorMsg, ib)

\* what the try block does after the old session was stopped:
\*   "build_raised" the callback, the hot-word list or Recognition(..) raises
\*   "start_raised" recognition.start() raises
\*   "started"      recognition.start() returns
\*   "start_called" recognition.start() is outstanding
StartOutcomes == {"build_raised", "start_raised", "started", "start_called"}

\* callback = StreamingRecognitionCallback(sid); hot-word list;
\* recognition = Recognition(..); recognition.start()
\* -- an exception goes to the handler's except, which leaves the lock
StartNew(t) ==
  LET c == thr[t].conn
      s == nsess + 1 IN
  /\ thr[t].pc = "s_new"
  /\ \E outcome \in StartOutcomes :
       /\ HotWordsRaise(HOT_WORDS) => outcome = "build_raised"
       /\ \/ /\ outcome = "started"
             /\ nsess' = s
             /\ sess' = [sess EXCEPT ![s] =
                           [NewSess EXCEPT !.conn = c, !.prov = "starting",
                                           !.starts = 1,
                                           !.hot_words = HotWordsKwarg(HOT_WORDS)]]
             /\ thr' = [thr EXCEPT ![t].pc = "s_store", ![t].rec = s]
             /\ UNCHANGED <<sessions_lock, inbox>>
          \/ /\ outcome = "start_called"
             /\ nsess' = s
             /\ sess' = [sess EXCEPT ![s] =
                           [NewSess EXCEPT !.conn = c, !.prov = "init",
                                           !.hot_words = HotWordsKwarg(HOT_WORDS)]]
             /\ thr' = [thr EXCEPT ![t].pc = "s_start_call", ![t].rec = s]
             /\ UNCHANGED <<sessions_lock, inbox>>
          \/ /\ outcome = "start_raised"
             /\ nsess' = s
             /\ sess' = [sess EXCEPT ![s] =
                           [NewSess EXCEPT !.conn = c, !.prov = "init",
                                           !.hot_words = HotWordsKwarg(HOT_WORDS)]]
             /\ sessions_lock' = LeaveLock(t, TRUE)
             /\ inbox' = StartFailed(c, inbox)
             /\ thr' = [thr EXCEPT ![t] = Idle]
          \/ /\ outcome = "build_raised"
             /\ sessions_lock' = LeaveLock(t, TRUE)
             /\ inbox' = StartFailed(c, inbox)
             /\ thr' = [thr EXCEPT ![t] = Idle]
             /\ UNCHANGED <<nsess, sess>>
  /\ UNCHANGED <<config, connState, active_sessions, inputs, sendLog>>

\* (variant: an entry that is present is kept)
StoreEntryIfAbsent(reg, c, s) ==
  IF reg[c] = NoSession THEN [reg EXCEPT ![c] = s] ELSE reg

\* active_sessions[session_id] = recognition
StoreEntry(reg, c, s) == [reg EXCEPT ![c] = s]

\* counters := 0; active_sessions[sid] = recognition; emit recognition_started
StartStore(t) ==
  LET c == thr[t].conn
      s == thr[t].rec IN
  /\ thr[t].pc = "s_store"
  /\ sess' = [sess EXCEPT ![s].frames = 0, ![s].bytes = 0,
                          ![s].after_error =
                             /\ active_sessions[c] # NoSession
                             /\ sess[active_sessions[c]].prov = "errored"]
  /\ active_sessions' = StoreEntry(active_sessions, c, s)
  /\ inbox' = EmitTo(c, Msg("recognition_started", c, "", FALSE, 0), inbox)
  /\ sessions_lock' = LeaveLock(t, FALSE)
  /\ thr' = [thr EXCEPT ![t] = Idle]
  /\ UNCHANGED <<config, connState, nsess, inputs, sendLog>>

\* -------------------------------------------------------- handle_audio_data
\* struct.pack('<Nh', *samples): two bytes per sample, low byte first;
\* struct.error when a sample is outside the signed 16-bit range
\* (variant: every integer is accepted and wraps to 16 bits)
InRange16Wrapping(x) == TRUE

InRange16(x) == x >= -32768 /\ x <= 32767

\* (variant: high byte first)
PackSampleBigEndian(x) == LET u == x % 65536 IN <<u \div 256, u % 256>>

PackSample(x) == LET u == x % 65536 IN <<u % 256, u \div 256>>

RECURSIVE Pack(_)
Pack(samples) ==
  IF samples = <<>> THEN <<>>
  ELSE PackSample(Head(samples)) \o Pack(Tail(samples))

\* the three branches on the payload: "bytes" to send, "raise", or "return"
Decode(d) ==
  IF d.kind = "samples"
  THEN IF \A i \in 1..Len(d.val) : InRange16(d.val[i])
       THEN [res |-> "bytes", val |-> Pack(d.val)]
       ELSE [res |-> "raise", val |-> <<>>]
  ELSE IF d.kind = "bytes"
  THEN [res |-> "bytes", val |-> d.val]
  ELSE [res |-> "return", val |-> <<>>]

\* (variant: a missing session is only logged, as an unknown payload is)
AudioNoSessionSilent(c, ib) == ib

\* if sid not in active_sessions: emit recognition_error; return
AudioNoSession(c, ib) == EmitTo(c, NoSessionError, ib)

\* with sessions_lock: if sid not in active_sessions: emit error; return
\*                     recognition = active_sessions[sid]
AudioLookup(c, d) ==
  /\ Known(c)
  /\ inputs < MaxInputs
  /\ LockFree
  /\ inputs' = inputs + 1
  /\ IF active_sessions[c] = NoSession
     THEN /\ inbox' = AudioNoSession(c, inbox)
          /\ UNCHANGED thr
     ELSE /\ Enter("audio", c, "a_send", active_sessions[c], d,
                   sess[active_sessions[c]].prov \in Terminal)
          /\ UNCHANGED inbox
  /\ UNCHANGED <<config, connState, active_sessions, sessions_lock,
                 sess, nsess, sendLog>>

\* decode the payload, then recognition.send_audio_frame(audio_bytes),
\* outside the lock; any exception is reported as recognition_error.
\* "x.count += n" is a load of x.count, an addition and a store, and another
\* thread can run between the load and the store: tmp is the loaded value.
\* When the send returns the handler loads _audio_frame_count.
AudioSend(t) ==
  LET c == thr[t].conn
      s == thr[t].rec
      dec == Decode(thr[t].data) IN
  /\ thr[t].pc = "a_send"
  /\ \/ /\ dec.res = "return"
        /\ thr' = [thr EXCEPT ![t] = Idle]
        /\ UNCHANGED <<inbox, sendLog, sess>>
     \/ /\ dec.res = "raise"
        /\ inbox' = EmitTo(c, ErrorMsg, inbox)
        /\ thr' = [thr EXCEPT ![t] = Idle]
        /\ UNCHANGED <<sendLog, sess>>
     \/ /\ dec.res = "bytes"
        /\ \E ok \in BOOLEAN :
             /\ sendLog' = sendLog \cup
                  {[s |-> s, prov |-> sess[s].prov, stops |-> sess[s].stops,
                    late |-> thr[t].late, ok |-> ok,
                    data |-> thr[t].data, sent |-> dec.val]}
             /\ IF ok
                THEN /\ thr' = [thr EXCEPT ![t].pc = "a_count",
                                            ![t].tmp = sess[s].frames]
                     /\ sess' = [sess EXCEPT
                                   ![s].sent_frames = @ + 1,
                                   ![s].sent_bytes = @ + Len(dec.val)]
                     /\ UNCHANGED inbox
                ELSE /\ thr' = [thr EXCEPT ![t] = Idle]
                     /\ inbox' = EmitTo(c, ErrorMsg, inbox)
                     /\ UNCHANGED sess
  /\ UNCHANGED <<config, connState, active_sessions, sessions_lock,
                 nsess, inputs>>

\* recognition._audio_frame_count += 1: the store of the loaded value + 1;
\* then the load of recognition._total_bytes_sent
AudioCount(t) ==
  LET s == thr[t].rec IN
  /\ thr[t].pc = "a_count"
  /\ sess' = [sess EXCEPT ![s].frames = thr[t].tmp + 1]
  /\ thr' = [thr EXCEPT ![t].pc = "a_bytes", ![t].tmp = sess[s].bytes]
  /\ UNCHANGED <<config, connState, active_sessions, sessions_lock,
                 nsess, inputs, inbox, sendLog>>

\* recognition._total_bytes_sent += len(audio_bytes): the store
AudioCountBytes(t) ==
  LET s == thr[t].rec
      n == Len(Decode(thr[t].data).val) IN
  /\ thr[t].pc = "a_bytes"
  /\ sess' = [sess EXCEPT ![s].bytes = thr[t].tmp + n]
  /\ thr' = [thr EXCEPT ![t] = Idle]
  /\ UNCHANGED <<config, connState, active_sessions, sessions_lock,
                 nsess, inputs, inbox, sendLog>>

\* ------------------------------------------------- handle_stop_recognition
\* (variant: a stop without a session is answered like audio without one)
StopAbsentReported(c, ib) == EmitTo(c, NoSessionError, ib)

\* else: logger.warning(...) -- nothing is emitted
StopAbsent(c, ib) == ib

\* with sessions_lock: if present: recognition.stop() -- returns, or raises
\* into the handler's except (emit recognition_error); else: log only
StopEnter(c) ==
  /\ Known(c)
  /\ inputs < MaxInputs
  /\ LockFree
  /\ inputs' = inputs + 1
  /\ IF active_sessions[c] = NoSession
     THEN /\ inbox' = StopAbsent(c, inbox)
          /\ UNCHANGED <<sess, sessions_lock, thr>>
     ELSE /\ sess' = StopCalled(sess, active_sessions[c])
          /\ \E outcome \in CallOutcomes :
               IF outcome = "raised"
               THEN /\ inbox' = EmitTo(c, ErrorMsg, inbox)
                    /\ UNCHANGED <<sessions_lock, thr>>
               ELSE /\ Enter("stop", c,
                             IF outcome = "returned" THEN "p_del"
                             ELSE "p_stop_call",
                             active_sessions[c], NoData, FALSE)
                    /\ sessions_lock' = FreeThread
                    /\ UNCHANGED inbox
  /\ UNCHANGED <<config, connState, active_sessions, nsess, sendLog>>

\* (variant: the entry is left in the registry)
RemoveEntryKept(reg, c) == reg

\* del active_sessions[session_id]
RemoveEntry(reg, c) == [reg EXCEPT ![c] = NoSession]

\* del active_sessions[sid]; emit recognition_stopped; leave the lock
StopRemove(t) ==
  LET c == thr[t].conn IN
  /\ thr[t].pc = "p_del"
  /\ active_sessions' = RemoveEntry(active_sessions, c)
  /\ inbox' = EmitTo(c, Msg("recognition_stopped", c, "", FALSE, 0), inbox)
  /\ sessions_lock' = LeaveLock(t, FALSE)
  /\ thr' = [thr EXCEPT ![t] = Idle]
  /\ UNCHANGED <<config, connState, sess, nsess, inputs, sendLog>>

\* --------------------------------------------- StreamingRecognitionCallback
\* a callback emits to every connected client and appends to its history
Deliver(s, ms, prov, cb) ==
  /\ sess' = [sess EXCEPT ![s] = [cb EXCEPT !.prov = prov,
                                            !.emitted = @ \o ms]]
  /\ inbox' = EmitAll(ms, inbox)
  /\ UNCHANGED <<config, connState, active_sessions, sessions_lock,
                 nsess, thr, sendLog>>

on_open(s) ==
  /\ UNCHANGED inputs
  /\ sess[s].prov = "starting"
  /\ Deliver(s, <<Msg("recognition_opened", sess[s].conn, "", FALSE, s)>>,
             "open", sess[s])

\* (variant: the result is emitted without the "if transcript" test)
on_event_emits_always(s, t) ==
  <<Msg("recognition_result", sess[s].conn, t, FALSE, s)>>

\* if transcript: emit recognition_result {transcript, is_final: False}
on_event_emits(s, t) ==
  IF t # "" THEN <<Msg("recognition_result", sess[s].conn, t, FALSE, s)>>
  ELSE <<>>

\* (variant: the text is stored without the "if transcript" test)
on_event_store_unchecked(cb, t) ==
  [cb EXCEPT !.partial_results = Append(@, t), !.final_result = t]

\* if transcript: partial_results.append(transcript); final_result = transcript
on_event_store(cb, t) ==
  IF t # ""
  THEN [cb EXCEPT !.partial_results = Append(@, t), !.final_result = t]
  ELSE cb

on_event(s, t) ==
  /\ sess[s].prov = "open"
  /\ inputs < MaxInputs
  /\ inputs' = inputs + 1
  /\ Deliver(s, on_event_emits(s, t), "open",
             on_event_store([sess[s] EXCEPT !.delivered = Append(@, t)], t))

\* (variant: the first partial result is reported instead of the last)
final_transcript_first(cb) ==
  IF cb.partial_results = <<>> THEN "" ELSE Head(cb.partial_results)

\* final_transcript = self.final_result or ''
final_transcript(cb) ==
  IF cb.final_result = NoneVal THEN "" ELSE cb.final_result

on_complete(s) ==
  /\ UNCHANGED inputs
  /\ sess[s].prov = "open"
  /\ Deliver(s, <<Msg("recognition_complete", sess[s].conn,
                      final_transcript(sess[s]), TRUE, s)>>,
             "completed", sess[s])

on_error(s) ==
  /\ UNCHANGED inputs
  /\ sess[s].prov \in {"starting", "open"}
  /\ Deliver(s, <<[Msg("recognition_error", sess[s].conn, "", FALSE, s)
                     EXCEPT !.error = "provider"]>>,
             "errored", sess[s])

on_close(s) ==
  /\ UNCHANGED inputs
  /\ sess[s].prov \in {"completed", "errored"}
  /\ Deliver(s, <<Msg("recognition_closed", sess[s].conn, "", FALSE, s)>>,
             "closed", sess[s])

\* ------------------------------------------------------------------- spec
Next ==
  \/ \E c \in Conns : handle_connect(c)
  \/ \E c \in Conns : handle_disconnect(c)
  \/ \E c \in Conns : StartNoKey(c)
  \/ \E c \in Conns : StartStopOld(c)
  \/ \E t \in Threads : StartNew(t)
  \/ \E t \in Threads : StartStore(t)
  \/ \E c \in Conns, d \in Payloads : AudioLookup(c, d)
  \/ \E t \in Threads : AudioSend(t)
  \/ \E t \in Threads : AudioCount(t)
  \/ \E t \in Threads : AudioCountBytes(t)
  \/ \E c \in Conns : StopEnter(c)
  \/ \E t \in Threads : StopRemove(t)
  \/ \E s \in SessIds : on_open(s)
  \/ \E s \in SessIds, t \in Texts : on_event(s, t)
  \/ \E s \in SessIds : on_complete(s)
  \/ \E s \in SessIds : on_error(s)
  \/ \E s \in SessIds : on_close(s)

Spec == Init /\ [][Next]_vars

\* A handler thread that can take its next step takes it (the threads are
\* scheduled by the operating system).  Nothing is assumed of the provider:
\* a call may stay outstanding and no callback needs to arrive.
HandlerStep(t) ==
  \/ StartNew(t) \/ StartStore(t) \/ StopRemove(t)
  \/ AudioSend(t) \/ AudioCount(t) \/ AudioCountBytes(t)

SpecFair == Spec /\ \A t \in Threads : WF_vars(HandlerStep(t))

\* ------------------------------------------------------- the audio codec
\* The conversion of an audio_data payload, over many payloads: the state is
\* the one in which a connection has a stored session and one audio_data
\* handler has just looked it up; the handler then runs to its end.
CodecSamples == {-32769, -32768, -1, 0, 1, 256, 32767, 32768}
CodecBytes   == {0, 1, 255}

CodecPayloads ==
  {[kind |-> "samples", val |-> v] : v \in SeqsUpTo(CodecSamples, MaxSamples)}
  \cup {[kind |-> "bytes", val |-> v] : v \in SeqsUpTo(CodecBytes, MaxSamples)}
  \cup {[kind |-> "other", val |-> <<>>]}

InitCodec ==
  /\ DASHSCOPE_API_KEY = TRUE
  /\ hotFile = MissingFile
  /\ HOT_WORDS = load_hot_words(hotFile)
  /\ connState = [c \in Conns |-> IF c = 1 THEN "connected" ELSE "new"]
  /\ active_sessions = [c \in Conns |-> IF c = 1 THEN 1 ELSE NoSession]
  /\ sessions_lock = NoThread
  /\ sess = [s \in SessIds |->
               IF s = 1 THEN [NewSess EXCEPT !.conn = 1, !.prov = "starting",
                                             !.starts = 1]
               ELSE NewSess]
  /\ nsess = 1
  /\ \E d \in CodecPayloads :
       thr = [t \in Threads |->
                IF t = 1 THEN [Idle EXCEPT !.kind = "audio", !.conn = 1,
                                           !.pc = "a_send", !.rec = 1,
                                           !.data = d]
                ELSE Idle]
  /\ inputs = 2
  /\ inbox = [c \in Conns |->
                IF c = 1 THEN SetToBag({Msg("connected", 1, "", FALSE, 0),
                                        Msg("recognition_started", 1, "",
                                            FALSE, 0)})
                ELSE EmptyBag]
  /\ sendLog = {}

NextCodec ==
  \/ \E t \in Threads : AudioSend(t)
  \/ \E t \in Threads : AudioCount(t)
  \/ \E t \in Threads : AudioCountBytes(t)

SpecCodec == InitCodec /\ [][NextCodec]_vars

\* ------------------------------------------------- notifications that fail
\* Spec takes emit() to return.  Here an emit made inside a handler's
\* "with sessions_lock:" block can raise instead: the exception leaves the
\* block and reaches the handler's except, whose own emit of
\* recognition_error is delivered or raises out of the handler.
ErrorEmitOutcomes(c, ib) == {ib, EmitTo(c, ErrorMsg, ib)}

\* emit('recognition_started', ..) raises after the entry was stored
StartStoreEmitRaises(t) ==
  LET c == thr[t].conn
      s == thr[t].rec IN
  /\ thr[t].pc = "s_store"
  /\ sess' = [sess EXCEPT ![s].frames = 0, ![s].bytes = 0,
                          ![s].after_error =
                             /\ active_sessions[c] # NoSession
                             /\ sess[active_sessions[c]].prov = "errored"]
  /\ active_sessions' = StoreEntry(active_sessions, c, s)
  /\ inbox' \in ErrorEmitOutcomes(c, inbox)
  /\ sessions_lock' = LeaveLock(t, TRUE)
  /\ thr' = [thr EXCEPT ![t] = Idle]
  /\ UNCHANGED <<config, connState, nsess, inputs, sendLog>>

\* emit('recognition_stopped', ..) raises after the entry was deleted
StopRemoveEmitRaises(t) ==
  LET c == thr[t].conn IN
  /\ thr[t].pc = "p_del"
  /\ active_sessions' = RemoveEntry(active_sessions, c)
  /\ inbox' \in ErrorEmitOutcomes(c, inbox)
  /\ sessions_lock' = LeaveLock(t, TRUE)
  /\ thr' = [thr EXCEPT ![t] = Idle]
  /\ UNCHANGED <<config, connState, sess, nsess, inputs, sendLog>>

\* emit('recognition_error', 'No active recognition session') raises: the
\* whole handler is one step, entered with the lock free and left with it
\* free
AudioNoSessionEmitRaises(c) ==
  /\ Known(c)
  /\ inputs < MaxInputs
  /\ LockFree
  /\ active_sessions[c] = NoSession
  /\ inputs' = inputs + 1
  /\ inbox' \in ErrorEmitOutcomes(c, inbox)
  /\ UNCHANGED <<config, connState, active_sessions, sessions_lock,
                 sess, nsess, thr, sendLog>>

NextEmit ==
  \/ Next
  \/ \E t \in Threads : StartStoreEmitRaises(t)
  \/ \E t \in Threads : StopRemoveEmitRaises(t)
  \/ \E c \in Conns : AudioNoSessionEmitRaises(c)

HandlerStepEmit(t) ==
  \/ HandlerStep(t)
  \/ StartStoreEmitRaises(t)
  \/ StopRemoveEmitRaises(t)

SpecEmit == Init /\ [][NextEmit]_vars

\* ---------------------------------------------------- hot words at start
\* Starting sessions under every hot_words.json: the server starts with the
\* credential configured and any file, and handles connects and
\* start_recognition messages.
InitHot == Boot(HotFiles) /\ DASHSCOPE_API_KEY = TRUE

NextHot ==
  \/ \E c \in Conns : handle_connect(c)
  \/ \E c \in Conns : StartStopOld(c)
  \/ \E t \in Threads : StartNew(t)
  \/ \E t \in Threads : StartStore(t)

SpecHot == InitHot /\ [][NextHot]_vars

\* ================================================================= claims
Live(s) == sess[s].starts > 0 /\ sess[s].stops = 0

\* C1: each connection has at most one live session (started, stop() never
\* invoked on it) at any instant, and a session is started only after
\* stop() has been invoked on every earlier started session of its connection.
C1_AtMostOneLive ==
  /\ \A c \in Conns :
       Cardinality({s \in SessIds : sess[s].conn = c /\ Live(s)}) <= 1
  /\ \A s1, s2 \in SessIds :
       (s1 < s2 /\ sess[s1].conn = sess[s2].conn /\ sess[s1].starts > 0
          /\ sess[s2].starts > 0)
       => sess[s1].stops > 0

\* a second session was started on a connection whose first one was stopped
C1_Witness ==
  \E s1, s2 \in SessIds :
    /\ s1 < s2 /\ sess[s1].conn = sess[s2].conn
    /\ sess[s1].starts > 0 /\ sess[s1].stops = 1
    /\ Live(s2) /\ active_sessions[sess[s2].conn] = s2

\* C2: when the disconnect handler runs for a connection with a session in
\* the registry, stop() is invoked exactly once on that session and the
\* entry is absent when the handler returns, also when stop() raises.
C2_DisconnectStopsOnceAndRemoves ==
  [][\A c \in Conns :
       (handle_disconnect(c) /\ active_sessions[c] # NoSession
          /\ sessions_lock' = NoThread)
       => /\ sess'[active_sessions[c]].stops = sess[active_sessions[c]].stops + 1
          /\ active_sessions'[c] = NoSession]_vars

\* C3: when the stop_recognition handler runs for a connection with a
\* session in the registry, the entry is absent when the handler returns,
\* even if stop() raises.
C3_StopHandlerRemoves ==
  [][/\ \A c \in Conns :
          (StopEnter(c) /\ active_sessions[c] # NoSession
             /\ sessions_lock' = NoThread)
          => active_sessions'[c] = NoSession
     /\ \A t \in Threads :
          StopRemove(t) => active_sessions'[thr[t].conn] = NoSession]_vars

\* C4: every event produced by the callbacks of a connection's session is
\* delivered to that connection and to no other connection.
C4_EventsOnlyToOwner ==
  \A c \in Conns : \A m \in BagToSet(inbox[c]) :
    m.src # 0 => sess[m.src].conn = c

\* C5: after the provider delivered onError, onComplete or onClose for a
\* session, the session is no longer in the registry, and a later
\* audio_data message is not forwarded to it.
C5_TerminatedNotInRegistry ==
  /\ \A c \in Conns :
       (sessions_lock = NoThread /\ active_sessions[c] # NoSession)
       => sess[active_sessions[c]].prov \notin Terminal
  /\ \A r \in sendLog : ~r.late

\* C6: when start_recognition finds a session in the registry, stop() has
\* been invoked on that session exactly once in its whole life by the time
\* the new session is constructed and started.
C6_OldStoppedExactlyOnce ==
  \A t \in Threads :
    (thr[t].kind = "start" /\ thr[t].pc = "s_new"
       /\ connState[thr[t].conn] = "connected"
       /\ active_sessions[thr[t].conn] # NoSession)
    => sess[active_sessions[thr[t].conn]].stops = 1

\* C7: a disconnect at any point of a session's life invokes stop() on the
\* connection's session and removes the entry: no session of the connection
\* is in the registry once the disconnect handler has completed.
C7_DisconnectLeavesNoSession ==
  [][\A c \in Conns :
       (handle_disconnect(c) /\ sessions_lock' = NoThread)
       => /\ active_sessions'[c] = NoSession
          /\ active_sessions[c] # NoSession
             => sess'[active_sessions[c]].stops > sess[active_sessions[c]].stops
    ]_vars

\* what a session's callback emitted as results and completion
IsResultOrComplete(m) == m.ev \in {"recognition_result", "recognition_complete"}
IsResult(m) == m.ev = "recognition_result"
Completed(s) ==
  \E i \in 1..Len(sess[s].emitted) : sess[s].emitted[i].ev = "recognition_complete"

NonEmptyText(t) == t # ""

ResultsOf(s, texts) ==
  [i \in 1..Len(texts) |->
     Msg("recognition_result", sess[s].conn, texts[i], FALSE, s)]

ResultsThenComplete(s, texts) ==
  ResultsOf(s, texts) \o
  <<Msg("recognition_complete", sess[s].conn,
        IF texts = <<>> THEN "" ELSE texts[Len(texts)], TRUE, s)>>

\* while the session's client is connected from the start of the session,
\* it has received each emitted message as often as it was emitted
ReceivedByOwner(s) ==
  LET c == sess[s].conn IN
  connState[c] = "connected" =>
    \A m \in BagToSet(inbox[c]) \cup {sess[s].emitted[i] : i \in 1..Len(sess[s].emitted)} :
      m.src = s =>
        CopiesIn(m, inbox[c]) =
          Cardinality({i \in 1..Len(sess[s].emitted) : sess[s].emitted[i] = m})

C10_SendOnlyWhileActive ==
  \A r \in sendLog : r.prov = "open" /\ r.stops = 0

\* C11: an audio_data message on a connection with no session in the
\* registry produces exactly one recognition_error ('No active recognition
\* session') to the client, sends no frame, leaves the registry and all
\* session objects unchanged, and the handler returns.
C11_AudioWithoutSession ==
  [][\A c \in Conns : \A d \in Payloads :
       (AudioLookup(c, d) /\ active_sessions[c] = NoSession)
       => /\ connState[c] = "connected"
             => inbox' = [inbox EXCEPT ![c] = @ (+) SetToBag({NoSessionError})]
          /\ connState[c] # "connected" => inbox' = inbox
          /\ UNCHANGED <<sendLog, active_sessions, sess, nsess, thr,
                         sessions_lock>>]_vars

\* a connected client that never had a session holds the 'no session' error
C11_Witness ==
  \E c \in Conns :
    /\ connState[c] = "connected"
    /\ CopiesIn(NoSessionError, inbox[c]) = 1
    /\ \A s \in SessIds : sess[s].conn # c
    /\ sendLog = {}

\* C12: a stop_recognition message on a connection with no session in the
\* registry is a no-op: nothing is emitted (neither recognition_error nor
\* recognition_stopped), stop() is called on no session, the registry is
\* unchanged and the handler returns; a repeated request finds the same
\* state and does the same.
C12_StopWithoutSession ==
  [][\A c \in Conns :
       (StopEnter(c) /\ active_sessions[c] = NoSession)
       => UNCHANGED <<inbox, sess, nsess, active_sessions, sessions_lock, thr,
                      sendLog, connState>>]_vars

\* every message of the run was a stop request of a connected client without
\* a session, and the client has received nothing but 'connected'
C12_Witness ==
  \E c \in Conns :
    /\ connState[c] = "connected"
    /\ \A c2 \in Conns \ {c} : connState[c2] = "new"
    /\ inputs = MaxInputs
    /\ nsess = 0
    /\ \A t \in Threads : thr[t] = Idle
    /\ inbox[c] = SetToBag({Msg("connected", c, "", FALSE, 0)})

\* the recognition_error notifications of handlers in a client's bag
HandlerErrorCount(b) ==
  CopiesIn(ErrorMsg, b) + CopiesIn(NoSessionError, b) + CopiesIn(NoKeyError, b)

\* C13: an audio_data message whose payload is neither a sample-array object
\* nor raw bytes, handled while the connection has a session, is reported to
\* the (connected) client as one recognition_error; the frame is dropped
\* (nothing sent to the provider, counters unchanged) and the session stays
\* in the registry.
C13_InvalidPayloadReported ==
  [][\A t \in Threads :
       (AudioSend(t) /\ thr[t].data.kind = "other"
          /\ connState[thr[t].conn] = "connected")
       => /\ HandlerErrorCount(inbox'[thr[t].conn])
               = HandlerErrorCount(inbox[thr[t].conn]) + 1
          /\ UNCHANGED <<sendLog, sess, active_sessions>>]_vars

\* C14: when start_recognition ends in an exception (while the callback,
\* the hot-word list or the Recognition object is built, or in start()), the
\* handler returns normally having left the lock, the (connected) client
\* receives one recognition_error and nothing else -- no recognition_started
\* -- and the registry is unchanged.
C14_StartExceptionReported ==
  [][\A t \in Threads :
       (StartNew(t) /\ thr'[t] = Idle)
       => /\ sessions_lock' = NoThread
          /\ active_sessions' = active_sessions
          /\ connState[thr[t].conn] = "connected"
             => inbox' = [inbox EXCEPT ![thr[t].conn] =
                            @ (+) SetToBag({ErrorMsg})]]_vars

\* a client whose only start failed in start(): it holds the error and no
\* recognition_started, and no session was ever stored
C14_Witness ==
  \E c \in Conns :
    /\ connState[c] = "connected"
    /\ nsess = 1 /\ sess[1].conn = c /\ sess[1].prov = "init"
    /\ CopiesIn(ErrorMsg, inbox[c]) = 1
    /\ CopiesIn(Msg("recognition_started", c, "", FALSE, 0), inbox[c]) = 0
    /\ active_sessions[c] = NoSession
    /\ sessions_lock = NoThread

\* C15: when no provider credential is configured, a start_recognition
\* message gives the (connected) client exactly one recognition_error and
\* changes nothing else, and no session work is ever done: no Recognition
\* object is constructed, stop() is called on none, no provider stream is
\* opened and the registry stays empty.
C15_NoCredentialNoSessionWork ==
  /\ [](~DASHSCOPE_API_KEY
        => /\ nsess = 0
           /\ \A s \in SessIds : sess[s] = NewSess
           /\ \A c \in Conns : active_sessions[c] = NoSession
           /\ sessions_lock = NoThread)
  /\ [][\A c \in Conns :
          (StartNoKey(c) /\ connState[c] = "connected")
          => /\ inbox' = [inbox EXCEPT ![c] = @ (+) SetToBag({NoKeyError})]
             /\ UNCHANGED <<sess, nsess, active_sessions, sessions_lock,
                            thr, sendLog>>]_vars

\* without a credential a connected client has asked to start twice and
\* holds the two errors
C15_Witness ==
  \E c \in Conns :
    /\ ~DASHSCOPE_API_KEY
    /\ connState[c] = "connected"
    /\ CopiesIn(NoKeyError, inbox[c]) = 2
    /\ nsess = 0

\* C16: every session on which stop() was invoked eventually reaches the
\* closed state (the provider's on_close was delivered, or a grace period
\* ended the wait): a provider that does not confirm closure leaves no
\* session pending forever.
C16_StoppedEventuallyClosed ==
  \A s \in SessIds : (sess[s].stops > 0) ~> (sess[s].prov = "closed")

\* C17: an outstanding start() or stop() of one connection does not keep the
\* handlers of other connections from running: the thread inside the
\* provider call does not hold sessions_lock, which every start, audio,
\* stop and disconnect handler has to take before anything else.
C17_CallsOutsideLock ==
  \A t \in Threads : thr[t].pc \in CallPcs => sessions_lock # t

\* C18: the registry is read for a stop and written only under
\* sessions_lock: at most one handler is inside a registry block at a time
\* (the thread holding the lock), and every step that writes the registry
\* or calls stop() on a registered session is a step of the lock's holder,
\* or of a handler that takes the free lock and leaves it in that step.
C18_RegistryUnderLock ==
  /\ [](\A t \in Threads : thr[t].pc \in LockPcs <=> sessions_lock = t)
  /\ [][(\/ active_sessions' # active_sessions
         \/ \E s \in SessIds : sess'[s].stops # sess[s].stops)
        => \/ sessions_lock = NoThread
           \/ thr'[sessions_lock] # thr[sessions_lock]]_vars

\* a handler of one connection is inside its registry block while an audio
\* handler of another connection is in flight
C18_Witness ==
  \E t, u \in Threads :
    /\ sessions_lock = t /\ thr[t].pc \in {"s_new", "s_store", "p_del"}
    /\ thr[u].kind = "audio" /\ thr[u].conn # thr[t].conn

\* C19: the disconnect handler can be invoked any number of times for a
\* connection: over all its invocations stop() is invoked at most once on a
\* session, and when a repeated invocation returns the registry has no
\* entry for the connection.
C19_RepeatedDisconnect ==
  /\ [](\A s \in SessIds : sess[s].dstops <= 1)
  /\ [][\A c \in Conns :
          (handle_disconnect(c) /\ connState[c] = "disconnected"
             /\ sessions_lock' = NoThread)
          => active_sessions'[c] = NoSession]_vars

StoppedMsg(c) == Msg("recognition_stopped", c, "", FALSE, 0)

\* C20: recognition_stopped is emitted only by a stop handler that found a
\* session for its connection, after stop() was called on that session and
\* in the step that removes the connection's entry: when the client
\* receives it, the registry has no entry for the connection.
C20_StoppedAfterRemoval ==
  [][\A c \in Conns :
       CopiesIn(StoppedMsg(c), inbox'[c]) > CopiesIn(StoppedMsg(c), inbox[c])
       => /\ \E t \in Threads :
               /\ thr[t].kind = "stop" /\ thr[t].conn = c
               /\ thr[t].rec # NoSession
               /\ active_sessions[c] = thr[t].rec
               /\ sess[thr[t].rec].stops > 0
               /\ thr'[t] = Idle
          /\ active_sessions'[c] = NoSession]_vars

\* a connected client stopped its session and received recognition_stopped
C20_Witness ==
  \E c \in Conns :
    /\ connState[c] = "connected"
    /\ CopiesIn(StoppedMsg(c), inbox[c]) = 1
    /\ active_sessions[c] = NoSession
    /\ \E s \in SessIds : sess[s].conn = c /\ sess[s].stops = 1

StartedMsg(c) == Msg("recognition_started", c, "", FALSE, 0)

\* C21: after the provider reported an error for a connection's session, a
\* start_recognition on that connection whose start() returns puts a new
\* session object in the place of the failed one and emits
\* recognition_started; an audio_data handler takes the session that is in
\* the registry when it looks it up, so audio handled after the new start
\* is sent to the new session and not to the failed one.
C21_UsableAfterProviderError ==
  /\ [][\A t \in Threads :
          (StartStore(t) /\ active_sessions[thr[t].conn] # NoSession
             /\ sess[active_sessions[thr[t].conn]].prov = "errored")
          => /\ active_sessions'[thr[t].conn] = thr[t].rec
             /\ thr[t].rec # active_sessions[thr[t].conn]
             /\ sess[thr[t].rec].starts = 1
             /\ connState[thr[t].conn] = "connected"
                => CopiesIn(StartedMsg(thr[t].conn), inbox'[thr[t].conn])
                     = CopiesIn(StartedMsg(thr[t].conn), inbox[thr[t].conn]) + 1
     ]_vars
  /\ [][\A t \in Threads :
          (thr[t].kind = "idle" /\ thr'[t].kind = "audio")
          => thr'[t].rec = active_sessions[thr'[t].conn]]_vars
  /\ [][\A t \in Threads :
          (AudioSend(t) /\ sendLog' # sendLog)
          => \A r \in sendLog' \ sendLog : r.s = thr[t].rec]_vars

\* a frame was sent for a session that replaced a failed one
C21_Witness ==
  \E r \in sendLog :
    /\ r.ok
    /\ sess[r.s].after_error
    /\ active_sessions[sess[r.s].conn] = r.s
    /\ connState[sess[r.s].conn] = "connected"
    /\ CopiesIn(StartedMsg(sess[r.s].conn), inbox[sess[r.s].conn]) = 2

\* C22: a session's frame counter and byte counter never decrease; a
\* counter changes only in the counting steps of an audio_data handler whose
\* frame was sent without an exception, the frame counter by 1 and the byte
\* counter by the length of the sent bytes, for each such handler; the
\* sending step itself (returning or raising) changes no counter.
C22_CountersGrowBySentFrames ==
  [][\A s \in SessIds :
       /\ sess'[s].frames >= sess[s].frames
       /\ sess'[s].bytes >= sess[s].bytes
       /\ (sess'[s].frames # sess[s].frames \/ sess'[s].bytes # sess[s].bytes)
          => \E t \in Threads :
               thr[t].rec = s /\ (AudioCount(t) \/ AudioCountBytes(t))
       /\ \A t \in Threads :
            /\ (AudioCount(t) /\ thr[t].rec = s)
               => sess'[s].frames = sess[s].frames + 1
            /\ (AudioCountBytes(t) /\ thr[t].rec = s)
               => sess'[s].bytes
                    = sess[s].bytes + Len(Decode(thr[t].data).val)
            /\ AudioSend(t) => /\ sess'[s].frames = sess[s].frames
                                /\ sess'[s].bytes = sess[s].bytes]_vars

\* the recognition_result notifications a session's callback has emitted
ForwardedResults(s) == SelectSeq(sess[s].emitted, IsResult)

\* C23: a session's final_result is written only when a provider result
\* with a non-empty text arrives and then becomes that text; it is never
\* set to the empty text or back to None, so after the first forwarded
\* result it is non-empty and equals the text of the last forwarded result.
C23_FinalTextIsLastResult ==
  /\ [](\A s \in SessIds :
          LET res == ForwardedResults(s) IN
          /\ sess[s].final_result # ""
          /\ sess[s].final_result =
               IF res = <<>> THEN NoneVal ELSE res[Len(res)].transcript)
  /\ [][\A s \in SessIds :
          sess'[s].final_result # sess[s].final_result
          => /\ Len(sess'[s].delivered) = Len(sess[s].delivered) + 1
             /\ sess'[s].final_result
                  = sess'[s].delivered[Len(sess'[s].delivered)]
             /\ sess'[s].final_result \notin {"", NoneVal}]_vars

\* a result with a text was followed by a result without one, and the
\* stored text is still the first one
C23_Witness ==
  \E s \in SessIds :
    /\ sess[s].delivered = <<"he", "">>
    /\ sess[s].final_result = "he"

\* the 16-bit two's-complement value of a sample, as an unsigned number
TwosComplement16(x) == IF x < 0 THEN x + 65536 ELSE x

\* C25: for every sample sequence in the signed 16-bit range the bytes
\* handed to the provider are exactly 2 x len(samples) bytes, bytes 2i and
\* 2i+1 (counted from 0) being the low and the high byte of the two's
\* complement of sample i, and the conversion does not fail; [1, -1, 256]
\* gives 01 00 FF FF 00 01.
C25_LittleEndianInt16 ==
  /\ \A t \in Threads :
       (thr[t].pc = "a_send" /\ thr[t].data.kind = "samples"
          /\ \A i \in 1..Len(thr[t].data.val) : InRange16(thr[t].data.val[i]))
       => Decode(thr[t].data).res = "bytes"
  /\ \A r \in sendLog :
       r.data.kind = "samples"
       => /\ Len(r.sent) = 2 * Len(r.data.val)
          /\ \A i \in 1..Len(r.data.val) :
               /\ InRange16(r.data.val[i])
               /\ r.sent[2 * i - 1] = TwosComplement16(r.data.val[i]) % 256
               /\ r.sent[2 * i] = TwosComplement16(r.data.val[i]) \div 256
  /\ \A r \in sendLog :
       r.data = [kind |-> "samples", val |-> <<1, -1, 256>>]
       => r.sent = <<1, 0, 255, 255, 0, 1>>

\* the samples [1, -1, 256] were sent to the provider
C25_Witness ==
  \E r \in sendLog :
    /\ r.data = [kind |-> "samples", val |-> <<1, -1, 256>>]
    /\ r.sent = <<1, 0, 255, 255, 0, 1>>
    /\ r.ok

\* C26: a payload that is already raw bytes is handed to the provider as
\* it is (same bytes, same length), and the handler's update of the byte
\* counter makes it larger by exactly the payload's length.
C26_BytesPassThrough ==
  /\ [](\A r \in sendLog : r.data.kind = "bytes" => r.sent = r.data.val)
  /\ [][\A t \in Threads :
          (AudioCountBytes(t) /\ thr[t].data.kind = "bytes")
          => sess'[thr[t].rec].bytes
               = sess[thr[t].rec].bytes + Len(thr[t].data.val)]_vars

\* the configuration counts as enabled unless 'enabled' is set to false
ConfigEnabled(hw) ==
  CASE hw.settings.kind = "absent" -> TRUE
    [] hw.settings.enabled = "absent" -> TRUE
    [] OTHER -> hw.settings.enabled = "true"

\* C27: every Recognition object is constructed with the hot-word field if
\* and only if the hot-word configuration is enabled and its word list is
\* not empty; the field then holds one entry per configured word, in order,
\* and a disabled or empty configuration gives no hot-word field.
C27_HotWordsIffEnabledAndNonEmpty ==
  \A s \in 1..nsess :
    /\ sess[s].hot_words.attached
         <=> (ConfigEnabled(HOT_WORDS) /\ HOT_WORDS.hotWords # <<>>)
    /\ sess[s].hot_words.attached
         => /\ Len(sess[s].hot_words.list) = Len(HOT_WORDS.hotWords)
            /\ \A i \in 1..Len(HOT_WORDS.hotWords) :
                 sess[s].hot_words.list[i] = HOT_WORDS.hotWords[i]
    /\ ~sess[s].hot_words.attached => sess[s].hot_words.list = <<>>

\* one session was started with hot words attached, and on another server
\* a configuration with words but disabled gave a session without them
C27_Witness ==
  \E s \in 1..nsess :
    /\ sess[s].starts = 1
    /\ \/ /\ sess[s].hot_words.attached
          /\ HOT_WORDS.settings.enabled = "true"
          /\ Len(HOT_WORDS.hotWords) = MaxWords
       \/ /\ ~sess[s].hot_words.attached
          /\ HOT_WORDS.settings.enabled = "false"
          /\ Len(HOT_WORDS.hotWords) = MaxWords

\* C28: when the load of hot_words.json fails (the file is missing, cannot
\* be read or parsed, is not a JSON object, or has an entry without 'word'
\* or 'weight'), HOT_WORDS is the empty, disabled configuration, the server
\* handles events, and every session is constructed without hot words.
C28_FailedLoadGivesEmptyDisabled ==
  (\/ hotFile.kind # "dict"
   \/ \E i \in 1..Len(hotFile.val.hotWords) :
        \/ hotFile.val.hotWords[i].word = NoWord
        \/ hotFile.val.hotWords[i].weight = NoWeight)
  => /\ HOT_WORDS.hotWords = <<>>
     /\ HOT_WORDS.settings = [kind |-> "dict", enabled |-> "false"]
     /\ \A s \in SessIds : ~sess[s].hot_words.attached

\* a session was started and stored after the load failed on an entry that
\* has a word but no weight, in a file that enables hot words
C28_Witness ==
  \E s \in 1..nsess : \E c \in Conns :
    /\ active_sessions[c] = s /\ sess[s].starts = 1
    /\ hotFile.kind = "dict"
    /\ hotFile.val.settings.enabled = "true"
    /\ hotFile.val.hotWords = <<[word |-> "tapetite", weight |-> NoWeight]>>

\* 'connected' {'session_id': c}
ConnectedMsg(c) == Msg("connected", c, "", FALSE, 0)

\* C29: the step that handles a connect event adds exactly one 'connected'
\* notification, carrying the connection's own identity, to that client and
\* nothing to any other client, creates no session and leaves the registry
\* unchanged; a client never holds a 'connected' notification with another
\* identity, nor more than one.
C29_ConnectNotifiesAndCreatesNothing ==
  /\ [](\A c \in Conns : \A m \in BagToSet(inbox[c]) :
          m.ev = "connected"
            => /\ m = ConnectedMsg(c)
               /\ CopiesIn(m, inbox[c]) = 1
               /\ connState[c] # "new")
  /\ [][\A c \in Conns :
          (connState[c] = "new" /\ connState'[c] = "connected")
            => /\ inbox'[c] = inbox[c] (+) SetToBag({ConnectedMsg(c)})
               /\ \A d \in Conns \ {c} : inbox'[d] = inbox[d]
               /\ UNCHANGED <<active_sessions, sess, nsess>>]_vars

\* both clients have connected, each holds its own notification only, and
\* no session exists
C29_Witness ==
  /\ nsess = 0
  /\ \A c \in Conns :
       /\ connState[c] = "connected"
       /\ active_sessions[c] = NoSession
       /\ inbox[c] = SetToBag({ConnectedMsg(c)})

\* C30: once the disconnect handler of a connection has completed and the
\* registry holds no entry for the connection, no step adds one.
C30_NoEntryAfterDisconnect ==
  [][\A c \in Conns :
       (/\ connState[c] = "disconnected"
        /\ active_sessions[c] = NoSession
        /\ \A t \in Threads :
             ~(thr[t].kind = "disconnect" /\ thr[t].conn = c))
         => active_sessions'[c] = NoSession]_vars

\* C31: whenever the registry lock is free, no session stored in the
\* registry has had stop() invoked on it.
C31_NoStoppedSessionStored ==
  sessions_lock = NoThread
    => \A c \in Conns :
         active_sessions[c] # NoSession
           => sess[active_sessions[c]].stops = 0

\* C32: the registry lock is held only by a handler that is inside its
\* "with sessions_lock:" block; every step by which a handler leaves the
\* block, by returning or because stop(), start(), the construction of the
\* session or a client notification raised, frees the lock; and a handler
\* that holds the lock and is not inside an outstanding provider call can
\* always take its next step, so it waits for nothing before it frees the
\* lock.
C32_LockAlwaysReleased ==
  /\ [](\A t \in Threads :
          /\ sessions_lock = t => thr[t].pc \in LockPcs
          /\ thr[t].pc \in LockPcs => sessions_lock = t)
  /\ [][\A t \in Threads :
          (thr[t].pc \in LockPcs /\ thr'[t].pc \notin LockPcs)
            => sessions_lock' = NoThread]_vars
  /\ [](\A t \in Threads :
          (sessions_lock = t /\ thr[t].pc \notin CallPcs)
            => ENABLED HandlerStepEmit(t))

\* a start_recognition handler has left the lock on an exception (start()
\* or a notification raised: the client holds a recognition_error of the
\* handler), and the lock is free
C32_Witness ==
  /\ sessions_lock = NoThread
  /\ \A t \in Threads : thr[t].kind = "idle"
  /\ \E c \in Conns :
       /\ connState[c] = "connected"
       /\ active_sessions[c] # NoSession
       /\ sess[active_sessions[c]].stops = 0
       /\ BagIn(ErrorMsg, inbox[c])
       /\ ~BagIn(StartedMsg(c), inbox[c])

\* a step of a start, audio, stop or disconnect handler of connection c
HandlerOf(c) ==
  \/ handle_disconnect(c)
  \/ StartNoKey(c)
  \/ StartStopOld(c)
  \/ StopEnter(c)
  \/ \E d \in Payloads : AudioLookup(c, d)
  \/ \E t \in Threads :
       /\ thr[t].conn = c
       /\ \/ StartNew(t) \/ StartStore(t) \/ StopRemove(t)
          \/ AudioSend(t) \/ AudioCount(t) \/ AudioCountBytes(t)

\* the sessions created for connection d
SessionsOf(d) == {s \in SessIds : sess[s].conn = d}

\* C33: a step of a start, audio, stop or disconnect handler of connection
\* c leaves the registry entry of every other connection d unchanged,
\* leaves every session object of d unchanged (its state, its start() and
\* stop() calls, its frame and byte counters), and sends no frame to a
\* session of d.
C33_HandlersTouchOwnConnectionOnly ==
  [][\A c \in Conns :
       HandlerOf(c)
         => \A d \in Conns \ {c} :
              /\ active_sessions'[d] = active_sessions[d]
              /\ \A s \in SessionsOf(d) : sess'[s] = sess[s]
              /\ \A e \in sendLog' \ sendLog : e.s \notin SessionsOf(d)]_vars

\* both connections have a stored session; connection 1's was stopped by a
\* handler of connection 1 and connection 2's has never been stopped
C33_Witness ==
  /\ active_sessions[1] # NoSession
  /\ active_sessions[2] # NoSession
  /\ sess[active_sessions[1]].stops = 1
  /\ sess[active_sessions[2]].stops = 0
  /\ sess[active_sessions[2]].starts = 1

\* C34: whenever no audio_data handler is in progress, every session's
\* frame counter equals the number of frames that were sent to the provider
\* for it without an exception, and its byte counter the sum of their
\* lengths.
C34_CountersMatchSentFrames ==
  (\A t \in Threads : thr[t].kind # "audio")
    => \A s \in SessIds :
         /\ sess[s].frames = sess[s].sent_frames
         /\ sess[s].bytes = sess[s].sent_bytes

\* C35: when the callback of a session emits recognition_opened, the
\* start_recognition handler that created the session has already emitted
\* its recognition_started (it is no longer between start() and its emit).
C35_StartedBeforeOpened ==
  [][\A s \in SessIds :
       (on_open(s) /\ sess'[s].prov = "open")
         => ~\E t \in Threads : thr[t].rec = s /\ thr[t].pc = "s_store"]_vars

\* C36: the steps of a start_recognition handler of connection c emit
\* nothing until the handler ends; the step that ends it emits exactly one
\* notification to c, recognition_error (no credential, or an exception) or
\* recognition_started; and recognition_started reaches a client only from
\* the step of its handler that follows a start() that returned and that
\* stores the session in the registry.
C36_OneResponsePerStart ==
  [][\A c \in Conns :
       /\ StartNoKey(c) => inbox' = EmitTo(c, NoKeyError, inbox)
       /\ StartStopOld(c) => inbox' = inbox
       /\ \A t \in Threads :
            (thr[t].kind = "start" /\ thr[t].conn = c)
              => /\ StartNew(t)
                      => inbox' = IF thr'[t].kind = "idle"
                                  THEN EmitTo(c, ErrorMsg, inbox)
                                  ELSE inbox
                 /\ StartStore(t)
                      => inbox' = EmitTo(c, StartedMsg(c), inbox)
       /\ CopiesIn(StartedMsg(c), inbox'[c]) > CopiesIn(StartedMsg(c), inbox[c])
            => \E t \in Threads :
                 /\ thr[t].kind = "start" /\ thr[t].conn = c
                 /\ thr'[t].kind = "idle"
                 /\ sess[thr[t].rec].starts = 1
                 /\ active_sessions'[c] = thr[t].rec
                 /\ CopiesIn(StartedMsg(c), inbox'[c])
                      = CopiesIn(StartedMsg(c), inbox[c]) + 1
                 /\ CopiesIn(ErrorMsg, inbox'[c]) = CopiesIn(ErrorMsg, inbox[c])]_vars

\* a client's first start_recognition was answered by recognition_started
\* and its second, whose start() raised, by recognition_error: two sessions
\* were constructed, the client holds one of each response
C36_Witness ==
  \E c \in Conns :
    /\ connState[c] = "connected"
    /\ nsess = 2
    /\ \A t \in Threads : thr[t].kind = "idle"
    /\ \A s \in 1..nsess : sess[s].conn = c
    /\ sess[2].starts = 0
    /\ active_sessions[c] = 1
    /\ CopiesIn(StartedMsg(c), inbox[c]) = 1
    /\ CopiesIn(ErrorMsg, inbox[c]) = 1

\* C37: once a newer session of the same connection is stored in the
\* registry and announced with recognition_started, the callbacks of the
\* session it replaced emit no result, complete, error or closed event
\* under the connection's identity.
C37_NoEventsFromReplacedSession ==
  [][\A s \in SessIds :
       (/\ Len(sess'[s].emitted) > Len(sess[s].emitted)
        /\ sess'[s].emitted[Len(sess'[s].emitted)].ev
             \in {"recognition_result", "recognition_complete",
                  "recognition_error", "recognition_closed"})
         => ~\E c \in Conns :
               /\ sess[s].conn = c
               /\ active_sessions[c] # NoSession
               /\ active_sessions[c] > s
               /\ BagIn(StartedMsg(c), inbox[c])]_vars

\* the payload is a sample array with a value outside [-32768, 32767]
OutOfRange(d) ==
  /\ d.kind = "samples"
  /\ \E i \in 1..Len(d.val) : d.val[i] < -32768 \/ d.val[i] > 32767

\* C38: the sending step of an audio_data handler whose sample array holds
\* a value outside the signed 16-bit range ends the handler with one
\* recognition_error to the client, sends nothing to the provider, changes
\* no counter and leaves the registry as it is; no frame ever sent came
\* from such an array.
C38_OutOfRangeRejected ==
  /\ [](\A r \in sendLog : ~OutOfRange(r.data))
  /\ [][\A t \in Threads :
          (thr[t].pc = "a_send" /\ OutOfRange(thr[t].data) /\ AudioSend(t))
            => /\ inbox' = EmitTo(thr[t].conn, ErrorMsg, inbox)
               /\ sendLog' = sendLog
               /\ sess' = sess
               /\ active_sessions' = active_sessions
               /\ thr'[t] = Idle]_vars

\* the handler has ended with a recognition_error for the client and
\* without a send; the session is stored and its counters are 0
C38_Witness ==
  /\ \A t \in Threads : thr[t].kind = "idle"
  /\ BagIn(ErrorMsg, inbox[1])
  /\ sendLog = {}
  /\ active_sessions[1] = 1
  /\ sess[1].frames = 0 /\ sess[1].bytes = 0
  /\ sess[1].sent_frames = 0

====
